---- MODULE Spec2Model ----
(***************************************************************************)
(* AudioProcessor (src/bot/audio_processor.py): the fallback orchestrator  *)
(* download_track, the yt-dlp extraction adapter it runs, and the temporary*)
(* directory they share.                                                   *)
(*                                                                         *)
(* Grain: asyncio runs a coroutine without interleaving from one await to  *)
(* the next, so each action is one such block.  The yt-dlp subprocess is   *)
(* an operating-system process of its own: its writes and its exit are     *)
(* actions that interleave with the coroutines' blocks.                    *)
(***************************************************************************)
EXTENDS Integers, Sequences, FiniteSets, TLC

\* ------------------------------------------------------------------ bounds
NumCalls == 2        \* download_track calls made on the one instance
MaxProcWrites == 1   \* files one yt-dlp subprocess writes before it exits
MaxLinks == 4        \* matches of one pattern in a search response
MaxMatching == 2     \* patterns that have matches in one search response
MaxSkips == 1        \* links that one mp3juices invocation passes over
MaxCleanups == 2     \* cleanup() calls made on the one instance
MaxQueryLen == 3     \* characters of a query whose name is computed
MaxClock == 3        \* name computations made for one query
MaxFileCleanups == 2 \* cleanup_file calls made on the one instance

\* ------------------------------------------------------- program constants
NoSession == 0              \* self.session = None
MinSizeYtDlp == 50000       \* yt-dlp adapter: os.path.getsize(file_path) > 50000
MinSizeScrape == 100000     \* os.path.getsize(output_file) > 100000
MinSizeMp3Download == 50000 \* mp3download: os.path.getsize(output_file) > 50000
HttpOk == 200               \* response.status == 200

\* the download_track calls, numbered in the order they are made
Calls == 1..NumCalls

\* the scraping adapters are not in sources: one runs only when its method is
\* called directly, which is task Direct of a run
Direct == 0
Tasks == {Direct} \cup Calls

\* sources = [("Y2Mate", self._download_with_y2mate_youtube)]
Sources == <<"Y2Mate">>

\* faulty variant: the extensions are probed from the last to the first
ExpectedExtsReversed == <<"ogg", "webm", "m4a", "mp3">>

\* for ext in ['mp3', 'm4a', 'webm', 'ogg']
ExpectedExts == <<"mp3", "m4a", "webm", "ogg">>

Exts == {ExpectedExts[i] : i \in 1..Len(ExpectedExts)}

\* track_info dictionaries the caller passes; the last two lack a key
TrackInfos ==
    { [name |-> "a", artist |-> "x"],
      [name |-> "b", artist |-> "x"],
      [name |-> "a", artist |-> "x@"],
      [artist |-> "x"],
      [name |-> "a"] }

\* track_info dictionaries passed to an adapter that is called directly
DirectTrackInfos == {[name |-> "a", artist |-> "x"], [artist |-> "x"]}

Qualities == {"128", "192", "320", "hd", "256", ""}

\* the quality passed where only the course of the call is followed
BotQualities == {"192"}

\* track_info dictionaries whose name and artist hold spaces and special
\* characters: the inputs of the tool's command line
CmdTrackInfos ==
    {[name |-> n, artist |-> a] : n \in {"a", "a b", " a", "b/"}, a \in {"x", "x a", "x@"}}

\* file sizes around the adapters' thresholds
Sizes == {0, MinSizeYtDlp, MinSizeYtDlp + 1, MinSizeScrape, MinSizeScrape + 1}

\* what the tool leaves in a file it writes: empty, partial, or complete
ProcSizes == {0, MinSizeYtDlp, MinSizeYtDlp + 1}

\* ------------------------------------------------------------ return values
NoneRet == [kind |-> "None"]
PathRet(p) == [kind |-> "path", path |-> p]
Raised(e) == [kind |-> "raise", exc |-> e]
Pending == [kind |-> "pending"]

\* search_query = f"{track_info['name']} {track_info['artist']}"
HasKeys(t) == "name" \in DOMAIN t /\ "artist" \in DOMAIN t
SearchQuery(t) == t.name \o " " \o t.artist

\* ------------------------------------------------------- the artifact name
\* Characters of a query, by what the two substitutions do with them.
\* \w: letters, digits and "_" of any script
WordChars ==
    {"a", "b", "c", "d", "e", "f", "g", "m", "o", "p", "w", "x", "_",
     "0", "1", "2", "3", "4", "5", "6", "7", "8", "9"}
\* \s: whitespace, the control characters \t \n \r \f \v among it
SpaceChars == {" ", "\t"}
\* neither \w nor \s nor "-": punctuation, path separators, quotes; emoji and
\* the other control characters fall in this class too
OtherChars == {"/", "\\", "\"", ".", "@"}

Char(s, i) == SubSeq(s, i, i)
Rest(s) == SubSeq(s, 2, Len(s))

\* re.sub(r'[^\w\s-]', '', search_query)
RECURSIVE Remove(_)
Remove(s) ==
    IF s = "" THEN ""
    ELSE (IF Char(s, 1) \in WordChars \cup SpaceChars \cup {"-"} THEN Char(s, 1) ELSE "")
            \o Remove(Rest(s))

\* .strip()
RECURSIVE LStrip(_)
LStrip(s) == IF s # "" /\ Char(s, 1) \in SpaceChars THEN LStrip(Rest(s)) ELSE s
RECURSIVE RStrip(_)
RStrip(s) ==
    IF s # "" /\ Char(s, Len(s)) \in SpaceChars THEN RStrip(SubSeq(s, 1, Len(s) - 1))
    ELSE s
Strip(s) == RStrip(LStrip(s))

\* re.sub(r'[-\s]+', '-', safe_filename)
RECURSIVE SkipSeparators(_)
SkipSeparators(s) ==
    IF s # "" /\ Char(s, 1) \in SpaceChars \cup {"-"} THEN SkipSeparators(Rest(s)) ELSE s
\* faulty variant: every separator character becomes a "-" of its own
RECURSIVE CollapseEach(_)
CollapseEach(s) ==
    IF s = "" THEN ""
    ELSE (IF Char(s, 1) \in SpaceChars \cup {"-"} THEN "-" ELSE Char(s, 1))
            \o CollapseEach(Rest(s))

RECURSIVE Collapse(_)
Collapse(s) ==
    IF s = "" THEN ""
    ELSE IF Char(s, 1) \in SpaceChars \cup {"-"} THEN "-" \o Collapse(SkipSeparators(s))
    ELSE Char(s, 1) \o Collapse(Rest(s))

\* faulty variant: the query is used as the file name as it is
SafeFilenameRaw(q) == q

SafeFilename(q) == Collapse(Strip(Remove(q)))

\* search_query.encode(): the byte of each character
Byte(ch) ==
    CASE ch = "a" -> 97 [] ch = "b" -> 98 [] ch = "x" -> 120 [] ch = "_" -> 95
      [] ch = " " -> 32 [] ch = "\t" -> 9 [] ch = "-" -> 45 [] ch = "/" -> 47
      [] ch = "\\" -> 92 [] ch = "\"" -> 34 [] ch = "." -> 46 [] ch = "@" -> 64

HexDigits == <<"0", "1", "2", "3", "4", "5", "6", "7", "8", "9",
               "a", "b", "c", "d", "e", "f">>

\* hexdigest()[:8]
HashLen == 8

\* hashlib.md5(...): the digest is modelled by a checksum of the bytes, one
\* hexadecimal digit per position k.  Like the 32 bits kept of md5 it is a
\* function of the bytes alone and is not injective.
RECURSIVE HashDigit(_, _, _)
HashDigit(s, i, k) ==
    IF s = "" THEN 0
    ELSE (Byte(Char(s, 1)) * (i + k) + HashDigit(Rest(s), i + 1, k)) % 16

RECURSIVE HexDigest(_, _)
HexDigest(s, k) ==
    IF k > HashLen THEN ""
    ELSE HexDigits[HashDigit(s, 1, k) + 1] \o HexDigest(s, k + 1)

\* file_hash = hashlib.md5(search_query.encode()).hexdigest()[:8]
FileHash(q) == HexDigest(q, 1)

\* faulty variant: the time of the computation goes into the hash
HashedTextWithTime(q, a, t) == q \o (IF t % 2 = 1 THEN "_" ELSE "")

\* search_query.encode(): what adapter a hashes at time t is the query alone
HashedText(q, a, t) == q

\* f"{safe_filename}-{file_hash}", as adapter a computes it at time t
Stem(q, a, t) == SafeFilename(q) \o "-" \o FileHash(HashedText(q, a, t))

\* the queries of the calls of a run, and their names
TrackQueries == {SearchQuery(t) : t \in {u \in TrackInfos \cup CmdTrackInfos : HasKeys(u)}}
StemOf == [q \in TrackQueries |-> Stem(q, "Y2Mate", 0)]

\* os.path.join(self.download_dir, f"{safe_filename}-{file_hash}.<ext>")
OutputFile(q, ext) == StemOf[q] \o "." \o ext

\* ---------------------------------------------------------------- the disk
Exists(fs, p) == p \in DOMAIN fs
WriteFile(fs, p, n, c) ==
    [x \in DOMAIN fs \cup {p} |-> IF x = p THEN [size |-> n, by |-> c] ELSE fs[x]]
RemoveFile(fs, p) == [x \in DOMAIN fs \ {p} |-> fs[x]]
NoFiles == [x \in {} |-> [size |-> 0, by |-> 0]]

\* ---------------------------------------------- scraping adapters' settings
Scrapers == {"mp3juice", "mp3juices", "y2mate", "mp3download", "directdl"}

\* download_patterns / mp3_patterns: five patterns in mp3juices, four in
\* directdl, three in each of the other adapters
NumPatterns(a) ==
    IF a = "mp3juices" THEN 5 ELSE IF a = "directdl" THEN 4 ELSE 3

\* for site_url in file_sites: directdl searches three sites in turn, the
\* other adapters one
NumSites(a) == IF a = "directdl" THEN 3 ELSE 1

\* The pattern loops of an adapter call, in the order the code runs them:
\* pattern p of site s is loop number (s - 1) * NumPatterns + p
NumLoops(a) == NumSites(a) * NumPatterns(a)

\* faulty variant: every match is tried
CapNone(a) == MaxLinks

\* for link in links[:3] (mp3juice, mp3juices), links[:2] (y2mate,
\* mp3download), links[:1] (directdl)
Cap(a) ==
    IF a \in {"mp3juice", "mp3juices"} THEN 3 ELSE IF a = "directdl" THEN 1 ELSE 2

\* the adapter's minimum file size
MinSize(a) == IF a = "mp3download" THEN MinSizeMp3Download ELSE MinSizeScrape

\* content types a download response may carry
CTypes == {"audio/mpeg", "video/mpeg", "text/html", "application/octet-stream"}

StartsWith(s, p) == Len(s) >= Len(p) /\ SubSeq(s, 1, Len(p)) = p
Contains(s, p) == \E i \in 1..(Len(s) - Len(p) + 1) : SubSeq(s, i, i + Len(p) - 1) = p

\* dl_response.content_length: 0 stands for None (no Content-Length header)
ContentLengths == {0, MinSizeScrape, MinSizeScrape + 1}

\* mp3juice: dl_response.status == 200 and content_type.startswith('audio')
\* y2mate, mp3download: status == 200, then 'audio' in content_type or
\* 'mpeg' in content_type
\* mp3juices: status == 200, then 'audio' in content_type or 'mpeg' in
\* content_type or dl_response.content_length and
\* dl_response.content_length > 100000
Accepts(a, status, ct, cl) ==
    /\ status = HttpOk
    /\ CASE a = "mp3juice" -> StartsWith(ct, "audio")
         [] a = "mp3juices" -> \/ Contains(ct, "audio")
                               \/ Contains(ct, "mpeg")
                               \/ (cl # 0 /\ cl > MinSizeScrape)
         [] OTHER -> Contains(ct, "audio") \/ Contains(ct, "mpeg")

VARIABLES
    direct,           \* the scraping adapter this run calls directly, or "none"
    session,          \* self.session: NoSession or the number of the ClientSession
    sessionsCreated,  \* ClientSession objects constructed so far
    files,            \* the files of download_dir: path -> size and the call
                      \* whose adapter invocation wrote it
    pc,               \* where each task stands
    track,            \* its track_info argument
    idx,              \* position of the for loop in sources
    ret,              \* what the adapter coroutine returned
    caught,           \* the exception an except clause of the adapter logged last
    result,           \* what download_track returned (or raised)
    invoked,          \* "Trying <source>" log lines of the call
    outcomes,         \* per source: the outcome line the call logged
    running,          \* sources whose adapter coroutine of the call is running
    proc,             \* the call's yt-dlp subprocess
    nwrites,          \* files that subprocess has written
    pat,              \* direct call: the pattern whose links are being tried
    lnk,              \* direct call: position in links[:cap]
    nlinks,           \* direct call: len(links) of that pattern
    requests,         \* direct call: the candidates requested, <<pattern, position>>
    ctype,            \* direct call: content type of the response being streamed
    nskips,           \* direct call: links passed over without a request
    dirExists,        \* os.path.exists(self.download_dir)
    cleanupPc,        \* where the cleanup() call stands
    cleanupLog,       \* how each cleanup() call so far ended
    query,            \* name computations: the search_query they are made for
    names,            \* per adapter: the output file names it has computed
    clock,            \* the time, counted in name computations
    quality,          \* per call: the quality the caller passed
    cmd,              \* per call: the command line its yt-dlp was started with
    diag,             \* per call: the "yt-dlp failed" line its adapter logged
    removeLog,        \* the cleanup_file calls so far: <<path, how the call ended>>
    searchStatus      \* direct call: status of the response to its search
                      \* request (directdl: its first), 0 before it arrives

vars == <<direct, session, sessionsCreated, files, pc, track, idx, ret, caught, result,
          invoked, outcomes, running, proc, nwrites, pat, lnk, nlinks, requests, ctype,
          nskips, dirExists, cleanupPc, cleanupLog, query, names, clock, quality, cmd, diag,
          removeLog, searchStatus>>

\* the variables of download_track calls and of the direct call
callVars == <<idx, result, invoked, outcomes, running, proc, nwrites>>
directVars == <<pat, lnk, nlinks, requests, ctype, nskips, searchStatus>>

\* the variables of cleanup()
cleanVars == <<dirExists, cleanupPc, cleanupLog>>

\* the variables of the name computations
nameVars == <<query, names, clock>>

\* the variables of the tool's command line and diagnostics
cmdVars == <<quality, cmd, diag>>

\* the adapters whose name computation is followed
NameAdapters == {"Y2Mate", "mp3juice", "y2mate"}
NoNames == [a \in NameAdapters |-> {}]

\* After __init__: an empty download_dir and no session.  A run that calls a
\* scraping adapter directly does so on a fresh instance or on one whose
\* session an earlier download_track has created.
ProcessorInit ==
    /\ direct \in {"none"} \cup Scrapers
    /\ sessionsCreated \in (IF direct = "none" THEN {0} ELSE {0, 1})
    /\ session = (IF sessionsCreated = 0 THEN NoSession ELSE sessionsCreated)
    /\ files = NoFiles
    /\ pc = [c \in Tasks |-> "idle"]
    /\ track = [c \in Tasks |-> [name |-> "a", artist |-> "x"]]
    /\ idx = [c \in Calls |-> 0]
    /\ ret = [c \in Tasks |-> Pending]
    /\ caught = [c \in Tasks |-> "none"]
    /\ result = [c \in Calls |-> Pending]
    /\ invoked = [c \in Calls |-> <<>>]
    /\ outcomes = [c \in Calls |-> <<>>]
    /\ running = [c \in Calls |-> {}]
    /\ proc = [c \in Calls |-> "none"]
    /\ nwrites = [c \in Calls |-> 0]
    /\ pat = 0
    /\ lnk = 0
    /\ nlinks = 0
    /\ requests = <<>>
    /\ ctype = "none"
    /\ nskips = 0
    /\ dirExists = TRUE
    /\ cleanupPc = "idle"
    /\ cleanupLog = <<>>
    /\ quality = [c \in Calls |-> "none"]
    /\ cmd = [c \in Calls |-> <<>>]
    /\ diag = [c \in Calls |-> "none"]
    /\ removeLog = <<>>
    /\ searchStatus = 0

Init ==
    /\ ProcessorInit
    /\ query = ""
    /\ names = NoNames
    /\ clock = 0

\* --------------------------------------------------------- the orchestrator
\* for source_name, download_func in sources: the loop starts at the first
\* source and goes on to the next one
FirstIndex == 1
\* faulty variant: the loop does not advance
NextIndexStuck(i) == i
NextIndex(i) == i + 1

\* if file_path and os.path.exists(file_path)
CheckResult(r, fs) == r.kind = "path" /\ Exists(fs, r.path)

\* faulty variant: the success branch does not return
VerdictNoReturn(r, fs) == "continue"

\* what the loop body does with what wait_for gave it: return file_path, or
\* log and go on to the next source (else branch and both except clauses)
Verdict(r, fs) ==
    IF r.kind = "raise" THEN "continue"
    ELSE IF CheckResult(r, fs) THEN "return"
    ELSE "continue"

\* the outcome line logged for r
OutcomeOf(r, fs) ==
    IF r.kind = "raise" THEN "error"
    ELSE IF CheckResult(r, fs) THEN "ok"
    ELSE "failed"

\* faulty variant: the TimeoutError clause lets the error through
OnTimeoutRaise == "raise"

\* except asyncio.TimeoutError: logger.error(...); continue
OnTimeout == "continue"

\* faulty variant: the exhausted loop raises instead of returning None
LoopEndRaises == Raised("DownloadError")

\* logger.error(f"Y2Mate failed for: ..."); return None
LoopEnd == NoneRet

\* faulty variant: the loop ends one source early
SourcesExhaustedEarly(i) == i >= Len(Sources)

\* the for loop has no source i left
SourcesExhausted(i) == i > Len(Sources)

\* The loop moves to source i of call c: past the end it logs and returns
\* None, otherwise it awaits wait_for(download_func(...), timeout=60.0), and
\* the adapter runs up to its first await (create_subprocess_exec).
\* act: the adapter coroutines of the call that are still running.
Enter(c, i, act) ==
    IF SourcesExhausted(i)
    THEN /\ pc' = [pc EXCEPT ![c] = "done"]
         /\ result' = [result EXCEPT ![c] = LoopEnd]
         /\ idx' = [idx EXCEPT ![c] = i]
         /\ running' = [running EXCEPT ![c] = act]
         /\ UNCHANGED invoked
    ELSE /\ pc' = [pc EXCEPT ![c] = "spawn"]
         /\ idx' = [idx EXCEPT ![c] = i]
         /\ invoked' = [invoked EXCEPT ![c] = Append(@, Sources[i])]
         /\ running' = [running EXCEPT ![c] = act \cup {i}]
         /\ UNCHANGED result

\* The loop body ends for source idx[c] with verdict v on value r.
Finish(c, v, r, act) ==
    CASE v = "return" ->
            /\ pc' = [pc EXCEPT ![c] = "done"]
            /\ result' = [result EXCEPT ![c] = r]
            /\ running' = [running EXCEPT ![c] = act]
            /\ UNCHANGED <<idx, invoked>>
      [] v = "raise" ->
            /\ pc' = [pc EXCEPT ![c] = "done"]
            /\ result' = [result EXCEPT ![c] = Raised("TimeoutError")]
            /\ running' = [running EXCEPT ![c] = act]
            /\ UNCHANGED <<idx, invoked>>
      [] OTHER -> Enter(c, NextIndex(idx[c]), act)

\* faulty variant: every call constructs a ClientSession
NeedsSessionAlways(s) == TRUE

\* if self.session is None
NeedsSession(s) == s = NoSession

\* faulty variant: the new session is kept in a local, self.session stays None
StoredSessionDropped(n) == NoSession

\* self.session = aiohttp.ClientSession(timeout=timeout): the attribute holds
\* the session just constructed
StoredSession(n) == n

\* download_track(track_info, quality) is called
DownloadTrack(c, t, q) ==
    /\ direct = "none"
    /\ pc[c] = "idle"
    /\ \A d \in Calls : d < c => pc[d] # "idle"
    /\ IF ~HasKeys(t)
       THEN \* line 42 raises KeyError before any try block
            /\ pc' = [pc EXCEPT ![c] = "done"]
            /\ result' = [result EXCEPT ![c] = Raised("KeyError")]
            /\ UNCHANGED <<session, sessionsCreated, track, quality, idx, invoked, running>>
       ELSE /\ track' = [track EXCEPT ![c] = t]
            /\ quality' = [quality EXCEPT ![c] = q]
            /\ IF NeedsSession(session)
               THEN /\ sessionsCreated' = sessionsCreated + 1
                    /\ session' = StoredSession(sessionsCreated + 1)
               ELSE UNCHANGED <<session, sessionsCreated>>
            /\ Enter(c, FirstIndex, {})
    /\ UNCHANGED <<direct, removeLog, nameVars, cmd, diag, cleanVars, files, ret, caught, outcomes, proc, nwrites,
                   directVars>>

\* ------------------------------------------- the extraction adapter (yt-dlp)
\* faulty variant: a file of exactly the minimum passes
ValidSizeAtLeast(n, min) == n >= min

\* os.path.getsize(...) > minimum
ValidSize(n, min) == n > min

\* faulty variant: the adapter's except clause raises the exception again
AdapterExceptReraise(e) == Raised(e)

\* except Exception as e: logger.error(...); return None
AdapterExcept(e) == NoneRet

\* quality_map: the tool's --format selector of each known quality
QualityMap ==
    [q \in {"128", "192", "320"} |->
        CASE q = "128" -> "bestaudio[abr<=128]/worst"
          [] q = "192" -> "bestaudio[abr<=192]/bestaudio[abr<=128]/worst"
          [] q = "320" -> "bestaudio/best"]

\* faulty variant: an unknown quality gets the lowest selector
AudioQualityLowest(q) == IF q \in DOMAIN QualityMap THEN QualityMap[q] ELSE "worst"

\* audio_quality = quality_map.get(quality, 'bestaudio/best')
AudioQuality(q) == IF q \in DOMAIN QualityMap THEN QualityMap[q] ELSE "bestaudio/best"

\* faulty variant: the search term is built artist first
SearchTermArtistFirst(t) == "ytsearch:" \o t.artist \o " " \o t.name

\* search_term = f"ytsearch:{track_info['name']} {track_info['artist']}"
SearchTerm(t) == "ytsearch:" \o t.name \o " " \o t.artist

UserAgent ==
    "Mozilla/5.0 (Windows NT 10.0; Win64; x64) AppleWebKit/537.36 (KHTML, like Gecko) Chrome/91.0.4472.124 Safari/537.36"

\* cmd = ['yt-dlp', ...]: the argument list of the subprocess for query sq,
\* track_info t and quality q
Command(sq, t, q) ==
    <<"yt-dlp", "--no-warnings", "--cookies", "cookies.txt",
      "--format", AudioQuality(q),
      "--extract-audio", "--audio-format", "mp3", "--audio-quality", "0",
      "--output", OutputFile(sq, "%(ext)s"),
      "--no-playlist", "--user-agent", UserAgent, SearchTerm(t)>>

\* await asyncio.create_subprocess_exec(*cmd, ...) returns the process, or
\* raises (yt-dlp is not installed) and the adapter's except clause runs
CreateSubprocess(c, ok) ==
    /\ pc[c] = "spawn"
    /\ cmd' = [cmd EXCEPT ![c] = Command(SearchQuery(track[c]), track[c], quality[c])]
    /\ IF ok
       THEN /\ pc' = [pc EXCEPT ![c] = "communicate"]
            /\ proc' = [proc EXCEPT ![c] = "running"]
            /\ nwrites' = [nwrites EXCEPT ![c] = 0]
            /\ UNCHANGED <<ret, caught, running>>
       ELSE /\ pc' = [pc EXCEPT ![c] = "returned"]
            /\ ret' = [ret EXCEPT ![c] = AdapterExcept("FileNotFoundError")]
            /\ caught' = [caught EXCEPT ![c] = "FileNotFoundError"]
            /\ running' = [running EXCEPT ![c] = @ \ {idx[c]}]
            /\ UNCHANGED <<proc, nwrites>>
    /\ UNCHANGED <<direct, removeLog, nameVars, quality, diag, cleanVars, session, sessionsCreated, files, track,
                   idx, result, invoked, outcomes, directVars>>

\* the subprocess writes --output <name>.%(ext)s under some extension; the
\* tool creates the directory of its output name when it is missing
ProcWrite(c, ext, n) ==
    /\ proc[c] = "running"
    /\ nwrites[c] < MaxProcWrites
    /\ files' = WriteFile(files, OutputFile(SearchQuery(track[c]), ext), n, c)
    /\ nwrites' = [nwrites EXCEPT ![c] = @ + 1]
    /\ dirExists' = TRUE
    /\ UNCHANGED <<direct, removeLog, nameVars, cmdVars, cleanupPc, cleanupLog, session, sessionsCreated, pc, track, idx, ret, caught,
                   result, invoked, outcomes, running, proc, directVars>>

\* the subprocess exits with status rc; the status is kept while the adapter
\* is still waiting in communicate() for it
ProcExit(c, rc) ==
    /\ proc[c] = "running"
    /\ proc' = [proc EXCEPT ![c] = IF pc[c] = "communicate" THEN rc ELSE "none"]
    /\ nwrites' = [nwrites EXCEPT ![c] = 0]
    /\ UNCHANGED <<direct, removeLog, nameVars, cmdVars, cleanVars, session, sessionsCreated, files, pc, track, idx, ret,
                   caught, result, invoked, outcomes, running, directVars>>

\* for file_path in expected_files: the first existing file above the minimum
\* is returned; an existing smaller one is removed.  rmFails: the extensions
\* whose os.remove raises.
RECURSIVE Probe(_, _, _, _)
Probe(exts, q, fs, rmFails) ==
    IF exts = <<>> THEN [ret |-> NoneRet, files |-> fs, exc |-> "none"]
    ELSE LET p == OutputFile(q, Head(exts)) IN
         IF ~Exists(fs, p) THEN Probe(Tail(exts), q, fs, rmFails)
         ELSE IF ValidSize(fs[p].size, MinSizeYtDlp)
              THEN [ret |-> PathRet(p), files |-> fs, exc |-> "none"]
         ELSE IF Head(exts) \in rmFails
              THEN [ret |-> AdapterExcept("OSError"), files |-> fs, exc |-> "OSError"]
         ELSE Probe(Tail(exts), q, RemoveFile(fs, p), rmFails)

\* faulty variant: the exit status is not looked at
ReturnCodeOkAlways(rc) == TRUE

\* if result.returncode == 0
ReturnCodeOk(rc) == rc = "exit0"

\* what the tool wrote to its stderr pipe
StderrText == "ERROR: unable to download video data"

\* logger.error(f"yt-dlp failed: {stderr.decode()}")
FailedLine(text) == "yt-dlp failed: " \o text

\* stdout, stderr = await result.communicate() returns; the rest of the
\* adapter runs to its return
Communicate(c, rmFails) ==
    /\ pc[c] = "communicate"
    /\ proc[c] \in {"exit0", "exit1"}
    /\ IF ReturnCodeOk(proc[c])
       THEN LET r == Probe(ExpectedExts, SearchQuery(track[c]), files, rmFails)
            IN /\ ret' = [ret EXCEPT ![c] = r.ret]
               /\ files' = r.files
               /\ caught' = [caught EXCEPT ![c] = r.exc]
               /\ UNCHANGED diag
       ELSE \* logger.error(f"yt-dlp failed: {stderr.decode()}"); return None;
            \* decode raises on bytes that are not UTF-8
            \E decodes \in BOOLEAN :
                /\ ret' = [ret EXCEPT ![c] = IF decodes THEN NoneRet
                                             ELSE AdapterExcept("UnicodeDecodeError")]
                /\ caught' = [caught EXCEPT ![c] = IF decodes THEN "none"
                                                   ELSE "UnicodeDecodeError"]
                /\ diag' = [diag EXCEPT ![c] = IF decodes THEN FailedLine(StderrText) ELSE @]
                /\ UNCHANGED files
    /\ pc' = [pc EXCEPT ![c] = "returned"]
    /\ proc' = [proc EXCEPT ![c] = "none"]
    /\ running' = [running EXCEPT ![c] = @ \ {idx[c]}]
    /\ UNCHANGED <<direct, removeLog, nameVars, quality, cmd, cleanVars, session, sessionsCreated,
                   track, idx, result, invoked, outcomes, nwrites, directVars>>

\* faulty variant: only the creation of the subprocess is under the timeout
SuspendedAtSpawnOnly(p) == p = "spawn"

\* the awaits of the adapter, all inside wait_for(..., timeout=60.0):
\* create_subprocess_exec and result.communicate()
Suspended(p) == p \in {"spawn", "communicate"}

\* faulty variant: one timer for the instance, its expiry cancels every call
CancelledWithAll(c) == Calls \ {c}

\* the other calls whose adapter coroutine the timeout of call c cancels:
\* each loop iteration builds its own wait_for around its own coroutine
CancelledWith(c) == {}

\* wait_for's 60 s pass while the adapter is suspended: the adapter coroutine
\* is cancelled (CancelledError is no Exception: its except clause does not
\* run), nothing ends the subprocess, and the loop's TimeoutError clause runs
Timeout(c) ==
    /\ Suspended(pc[c])
    /\ outcomes' = [outcomes EXCEPT ![c] = Append(@, <<Sources[idx[c]], "timeout">>)]
    /\ Finish(c, OnTimeout, NoneRet, running[c] \ {idx[c]})
    /\ ret' = [d \in DOMAIN ret |->
                 IF d \in CancelledWith(c) /\ Suspended(pc[d])
                 THEN Raised("CancelledError") ELSE ret[d]]
    /\ UNCHANGED <<direct, removeLog, nameVars, cmdVars, cleanVars, session, sessionsCreated, files, track, caught, proc,
                   nwrites, directVars>>

\* wait_for hands the adapter's value to the loop body
Deliver(c) ==
    /\ pc[c] = "returned"
    /\ outcomes' = [outcomes EXCEPT ![c] =
                     Append(@, <<Sources[idx[c]], OutcomeOf(ret[c], files)>>)]
    /\ Finish(c, Verdict(ret[c], files), ret[c], running[c])
    /\ UNCHANGED <<direct, removeLog, nameVars, cmdVars, cleanVars, session, sessionsCreated, files, track, ret, caught, proc,
                   nwrites, directVars>>

\* ------------------------------------------------- the scraping adapters
\* faulty variant: every query is written to one fixed name
ScrapeFileShared(t) == "download.mp3"

\* output_file = os.path.join(self.download_dir, f"{safe_filename}-{file_hash}.mp3")
ScrapeFile(t) == OutputFile(SearchQuery(t), "mp3")

\* except Exception as e: logger.warning("... scraping error"): the code
\* after the search block returns None
SearchExcept(e) == NoneRet

\* except Exception as e: logger.debug("... download attempt failed"); continue
Caught(e) == [caught EXCEPT ![Direct] = e]

\* The search response is scanned lazily: nx tells which later pattern is the
\* next one with matches, and how many it has; Exhausted: none has any.
Exhausted == [pat |-> 0, n |-> 0]
Matching == {requests[k][1] : k \in DOMAIN requests} \cup ({pat} \ {0})
Later(a, p) ==
    {[pat |-> q, n |-> m] : q \in (IF Cardinality(Matching) < MaxMatching
                                   THEN (p + 1)..NumLoops(a) ELSE {}),
                            m \in 1..MaxLinks}
        \cup {Exhausted}

Min(x, y) == IF x < y THEN x ELSE y

\* for pattern in patterns: for link in links[:cap]: the loops go on to the
\* next candidate and the adapter awaits session.get(link), or they end and
\* the adapter returns None
NextCandidate(nx) ==
    IF lnk < Min(nlinks, Cap(direct))
    THEN /\ lnk' = lnk + 1
         /\ pc' = [pc EXCEPT ![Direct] = "get"]
         /\ UNCHANGED <<pat, nlinks, ret>>
    ELSE IF nx = Exhausted
    THEN /\ pc' = [pc EXCEPT ![Direct] = "returned"]
         /\ ret' = [ret EXCEPT ![Direct] = NoneRet]
         /\ UNCHANGED <<pat, lnk, nlinks>>
    ELSE /\ pat' = nx.pat
         /\ nlinks' = nx.n
         /\ lnk' = 1
         /\ pc' = [pc EXCEPT ![Direct] = "get"]
         /\ UNCHANGED ret

\* the request for the candidate at hand has been made
Requested == Append(requests, <<pat, lnk>>)

\* the adapter method is called: it builds its names and URLs and awaits
\* self.session.get(search_url)
AdapterCall(t) ==
    /\ direct # "none"
    /\ pc[Direct] = "idle"
    /\ IF ~HasKeys(t)
       THEN \* track_info['name'] raises KeyError: the outer except clause
            /\ ret' = [ret EXCEPT ![Direct] = AdapterExcept("KeyError")]
            /\ caught' = Caught("KeyError")
            /\ pc' = [pc EXCEPT ![Direct] = "returned"]
            /\ UNCHANGED track
       ELSE IF session = NoSession
       THEN \* None.get raises AttributeError inside the search block
            /\ ret' = [ret EXCEPT ![Direct] = SearchExcept("AttributeError")]
            /\ caught' = Caught("AttributeError")
            /\ pc' = [pc EXCEPT ![Direct] = "returned"]
            /\ track' = [track EXCEPT ![Direct] = t]
       ELSE /\ pc' = [pc EXCEPT ![Direct] = "search"]
            /\ track' = [track EXCEPT ![Direct] = t]
            /\ UNCHANGED <<ret, caught>>
    /\ UNCHANGED <<direct, removeLog, nameVars, cmdVars, cleanVars, session, sessionsCreated, files, callVars, directVars>>

\* faulty variant: every response to the search is scanned for links
SearchOkAlways(status) == TRUE

\* if response.status == 200
SearchOk(status) == status = HttpOk

\* nx is a pattern loop of a later site than the first, or there is none
OfLaterSite(nx) == nx = Exhausted \/ nx.pat > NumPatterns(direct)

\* the search response arrives: if response.status == 200 the body is read
\* and scanned, otherwise the adapter returns None; directdl goes on to its
\* next site instead (the searches of the later sites are part of the scan
\* for the next matching pattern loop)
SearchResponse(status, nx) ==
    /\ pc[Direct] = "search"
    /\ searchStatus' = status
    /\ IF SearchOk(status)
       THEN NextCandidate(nx)
       ELSE IF NumSites(direct) > 1
       THEN OfLaterSite(nx) /\ NextCandidate(nx)
       ELSE /\ pc' = [pc EXCEPT ![Direct] = "returned"]
            /\ ret' = [ret EXCEPT ![Direct] = NoneRet]
            /\ UNCHANGED <<pat, lnk, nlinks>>
    /\ UNCHANGED <<direct, removeLog, nameVars, cmdVars, cleanVars, session, sessionsCreated, files, track, caught, callVars,
                   requests, ctype, nskips>>

\* the search request or the reading of its body raises (timeout,
\* connection): the adapter returns None; directdl's except clause continues
\* with the next site
SearchFails(nx) ==
    /\ pc[Direct] = "search"
    /\ UNCHANGED searchStatus
    /\ IF NumSites(direct) > 1
       THEN OfLaterSite(nx) /\ NextCandidate(nx)
       ELSE /\ nx = Exhausted
            /\ pc' = [pc EXCEPT ![Direct] = "returned"]
            /\ ret' = [ret EXCEPT ![Direct] = SearchExcept("ClientError")]
            /\ UNCHANGED <<pat, lnk, nlinks>>
    /\ caught' = Caught("ClientError")
    /\ UNCHANGED <<direct, removeLog, nameVars, cmdVars, cleanVars, session, sessionsCreated, files,
                   track, callVars, requests, ctype, nskips>>

\* mp3juices: a link that does not start with 'http' but names mp3juices.cc
\* is passed over (continue) without a request
SkipLink(nx) ==
    /\ pc[Direct] = "get"
    /\ UNCHANGED searchStatus
    /\ direct = "mp3juices"
    /\ nskips < MaxSkips
    /\ nskips' = nskips + 1
    /\ NextCandidate(nx)
    /\ UNCHANGED <<direct, removeLog, nameVars, cmdVars, cleanVars, session, sessionsCreated, files, track, caught, callVars,
                   requests, ctype>>

\* the download response arrives: an accepted one is streamed to output_file,
\* which open(output_file, 'wb') creates empty (openOk: it does not raise)
GetResponse(status, ct, cl, openOk, nx) ==
    /\ pc[Direct] = "get"
    /\ UNCHANGED searchStatus
    /\ requests' = Requested
    /\ IF Accepts(direct, status, ct, cl) /\ openOk
       THEN /\ files' = WriteFile(files, ScrapeFile(track[Direct]), 0, Direct)
            /\ pc' = [pc EXCEPT ![Direct] = "stream"]
            /\ ctype' = ct
            /\ UNCHANGED <<ret, caught, pat, lnk, nlinks>>
       ELSE \* not accepted, or open raised: except Exception ... continue
            /\ NextCandidate(nx)
            /\ caught' = IF Accepts(direct, status, ct, cl) THEN Caught("OSError")
                          ELSE caught
            /\ UNCHANGED <<files, ctype>>
    /\ UNCHANGED <<direct, removeLog, nameVars, cmdVars, cleanVars, session, sessionsCreated, track, callVars, nskips>>

\* the download request raises: except Exception ... continue
GetFails(nx) ==
    /\ pc[Direct] = "get"
    /\ UNCHANGED searchStatus
    /\ requests' = Requested
    /\ NextCandidate(nx)
    /\ caught' = Caught("ClientError")
    /\ UNCHANGED <<direct, removeLog, nameVars, cmdVars, cleanVars, session, sessionsCreated, files, track, callVars, ctype,
                   nskips>>

\* async for chunk in dl_response.content.iter_chunked(8192): f.write(chunk)
StreamChunk(n) ==
    /\ pc[Direct] = "stream"
    /\ Exists(files, ScrapeFile(track[Direct]))
    /\ n > files[ScrapeFile(track[Direct])].size
    /\ files' = WriteFile(files, ScrapeFile(track[Direct]), n, Direct)
    /\ UNCHANGED <<direct, removeLog, nameVars, cmdVars, cleanVars, session, sessionsCreated, pc, track, ret, caught, callVars,
                   directVars>>

\* faulty variant: the small file is left where it is
AfterSmallFileKept(fs, p, rmOk) == fs

\* else: os.remove(output_file), which deletes the file or raises
AfterSmallFile(fs, p, rmOk) == IF rmOk THEN RemoveFile(fs, p) ELSE fs

\* the body ends: the file is returned if it is above the minimum, otherwise
\* os.remove(output_file) (rmOk: it does not raise) and the next candidate
StreamEnd(rmOk, nx) ==
    /\ pc[Direct] = "stream"
    /\ UNCHANGED searchStatus
    /\ Exists(files, ScrapeFile(track[Direct]))
    /\ IF ValidSize(files[ScrapeFile(track[Direct])].size, MinSize(direct))
       THEN /\ ret' = [ret EXCEPT ![Direct] = PathRet(ScrapeFile(track[Direct]))]
            /\ pc' = [pc EXCEPT ![Direct] = "returned"]
            /\ UNCHANGED <<files, caught, pat, lnk, nlinks>>
       ELSE /\ files' = AfterSmallFile(files, ScrapeFile(track[Direct]), rmOk)
            /\ caught' = IF rmOk THEN caught ELSE Caught("OSError")
            /\ NextCandidate(nx)
    /\ ctype' = "none"
    /\ UNCHANGED <<direct, removeLog, nameVars, cmdVars, cleanVars, session, sessionsCreated, track, callVars, requests, nskips>>

\* the transfer raises midway: except Exception ... continue
StreamFails(nx) ==
    /\ pc[Direct] = "stream"
    /\ UNCHANGED searchStatus
    /\ NextCandidate(nx)
    /\ caught' = Caught("ClientError")
    /\ ctype' = "none"
    /\ UNCHANGED <<direct, removeLog, nameVars, cmdVars, cleanVars, session, sessionsCreated, files, track, callVars, requests,
                   nskips>>

\* the instance is used through download_track and cleanup only
CleanupInit == Init /\ direct = "none"

\* a scraping adapter called directly
ScrapeNext ==
    \/ \E t \in DirectTrackInfos : AdapterCall(t)
    \/ \E st \in {HttpOk, HttpOk + 204}, nx \in Later(direct, 0) : SearchResponse(st, nx)
    \/ \E nx \in Later(direct, 0) : SearchFails(nx)
    \/ \E nx \in Later(direct, pat) : SkipLink(nx)
    \/ \E st \in {HttpOk, HttpOk + 204}, ct \in CTypes, cl \in ContentLengths,
          openOk \in BOOLEAN, nx \in Later(direct, pat) :
            GetResponse(st, ct, cl, openOk, nx)
    \/ \E nx \in Later(direct, pat) : GetFails(nx)
    \/ \E n \in Sizes : StreamChunk(n)
    \/ \E rmOk \in BOOLEAN, nx \in Later(direct, pat) : StreamEnd(rmOk, nx)
    \/ \E nx \in Later(direct, pat) : StreamFails(nx)

\* download_track calls and their yt-dlp subprocesses
BotNext ==
    \/ \E c \in Calls, t \in TrackInfos, q \in BotQualities : DownloadTrack(c, t, q)
    \/ \E c \in Calls, ok \in BOOLEAN : CreateSubprocess(c, ok)
    \/ \E c \in Calls, e \in Exts, n \in ProcSizes : ProcWrite(c, e, n)
    \/ \E c \in Calls, rc \in {"exit0", "exit1"} : ProcExit(c, rc)
    \/ \E c \in Calls, rmFails \in SUBSET Exts : Communicate(c, rmFails)
    \/ \E c \in Calls : Timeout(c)
    \/ \E c \in Calls : Deliver(c)

Next == ScrapeNext \/ BotNext

Spec == Init /\ [][Next]_vars

\* The event loop runs what is ready: the timer of wait_for fires once its
\* 60 s have passed, and a value the adapter returned is handed to the loop
\* body.  Nothing is assumed of the subprocess or of the network.
LiveSpec ==
    /\ CleanupInit
    /\ [][BotNext]_vars
    /\ \A c \in Calls : WF_vars(Timeout(c) \/ Deliver(c))

\* the call of a run that makes one download_track call at a time
CmdCalls == {1}

\* ------------------------------------------------------------ cleanup_file
\* faulty variant: the except clause lets the error through
CleanupFileExceptReraise(e) == "raise"

\* except Exception as e: logger.warning(f"Failed to cleanup file ...")
CleanupFileExcept(e) == "warned"

\* the paths cleanup_file is called with: the artifacts of the track, and
\* paths nothing was ever written to
CleanupPaths ==
    {OutputFile("a x", e) : e \in {"mp3", "m4a"}} \cup {"", "a-x.mp3"}

\* cleanup_file(p): if os.path.exists(file_path): os.remove(file_path), all
\* inside try/except Exception; rmFails: os.remove raises
CleanupFile(p, rmFails) ==
    /\ Len(removeLog) < MaxFileCleanups
    /\ IF ~Exists(files, p)
       THEN /\ removeLog' = Append(removeLog, <<p, "absent">>)
            /\ UNCHANGED files
       ELSE IF rmFails
       THEN /\ removeLog' = Append(removeLog, <<p, CleanupFileExcept("OSError")>>)
            /\ UNCHANGED files
       ELSE /\ removeLog' = Append(removeLog, <<p, "removed">>)
            /\ files' = RemoveFile(files, p)
    /\ UNCHANGED <<direct, nameVars, cmdVars, cleanVars, session, sessionsCreated, pc, track, idx,
                   ret, caught, result, invoked, outcomes, running, proc, nwrites, directVars>>

\* one download_track call for one track, and cleanup_file calls at any moment
FileNext ==
    \/ \E c \in CmdCalls : DownloadTrack(c, [name |-> "a", artist |-> "x"], "128")
    \/ \E c \in CmdCalls, ok \in BOOLEAN : CreateSubprocess(c, ok)
    \/ \E c \in CmdCalls, e \in {"mp3", "m4a"}, n \in {0, MinSizeYtDlp + 1} : ProcWrite(c, e, n)
    \/ \E c \in CmdCalls, rc \in {"exit0", "exit1"} : ProcExit(c, rc)
    \/ \E c \in CmdCalls, rmFails \in SUBSET {"mp3"} : Communicate(c, rmFails)
    \/ \E c \in CmdCalls : Timeout(c)
    \/ \E c \in CmdCalls : Deliver(c)
    \/ \E p \in CleanupPaths, rmFails \in BOOLEAN : CleanupFile(p, rmFails)

FileSpec == CleanupInit /\ [][FileNext]_vars

\* ------------------------------------------------- the tool's command line
CommandNext ==
    \/ \E c \in CmdCalls, t \in CmdTrackInfos, q \in Qualities : DownloadTrack(c, t, q)
    \/ \E c \in CmdCalls, ok \in BOOLEAN : CreateSubprocess(c, ok)
    \/ \E c \in CmdCalls, e \in {"mp3", "m4a"}, n \in {MinSizeYtDlp, MinSizeYtDlp + 1} :
          ProcWrite(c, e, n)
    \/ \E c \in CmdCalls, rc \in {"exit0", "exit1"} : ProcExit(c, rc)
    \/ \E c \in CmdCalls, rmFails \in SUBSET {"mp3"} : Communicate(c, rmFails)
    \/ \E c \in CmdCalls : Timeout(c)
    \/ \E c \in CmdCalls : Deliver(c)

CommandSpec == CleanupInit /\ [][CommandNext]_vars

\* ------------------------------------------------------ name computations
\* the characters queries are drawn from
Alphabet == {"a", "_", "-"} \cup SpaceChars \cup OtherChars

RECURSIVE StringsUpTo(_)
StringsUpTo(n) ==
    IF n = 0 THEN {""}
    ELSE LET S == StringsUpTo(n - 1) IN S \cup {t \o ch : t \in S, ch \in Alphabet}

Queries == StringsUpTo(MaxQueryLen)

\* the output file names of adapter a for query q, computed at time t: the
\* scraping adapters write <stem>.mp3, the yt-dlp adapter expects its
\* template under each of the four extensions
NamesOf(q, a, t) ==
    IF a = "Y2Mate" THEN {Stem(q, a, t) \o "." \o ExpectedExts[k] : k \in DOMAIN ExpectedExts}
    ELSE {Stem(q, a, t) \o ".mp3"}

\* adapter a is entered for the query and computes its output file name
ComputeName(a) ==
    /\ clock < MaxClock
    /\ clock' = clock + 1
    /\ names' = [names EXCEPT ![a] = @ \cup NamesOf(query, a, clock)]
    /\ UNCHANGED <<query, direct, removeLog, cmdVars, cleanVars, session, sessionsCreated, files, pc, track,
                   ret, caught, callVars, directVars>>

NameNext == \E a \in NameAdapters : ComputeName(a)

NameInit ==
    /\ ProcessorInit
    /\ direct = "none"
    /\ query \in Queries
    /\ names = NoNames
    /\ clock = 0

NameSpec == NameInit /\ [][NameNext]_vars

\* ---------------------------------------------------------------- cleanup()
\* faulty variant: the except clause of cleanup lets the error through
CleanupExceptReraise(e) == "raise"

\* except Exception as e: logger.error(f"Cleanup error: {e}"): the call
\* returns normally
CleanupExcept(e) == "error"

\* faulty variant: the directory is removed only while a session is set
NeedsRemovalIfSession(d, s) == d /\ s # NoSession

\* if os.path.exists(self.download_dir)
NeedsRemoval(d, s) == d

\* if os.path.exists(self.download_dir): shutil.rmtree(self.download_dir),
\* and cleanup returns.  rm = "ok": the tree is removed; otherwise rmtree
\* raises after it has removed the files outside left.
RemoveTree(rm, left) ==
    IF ~NeedsRemoval(dirExists, session)
    THEN /\ cleanupLog' = Append(cleanupLog, "ok")
         /\ UNCHANGED <<dirExists, files>>
    ELSE IF rm = "ok"
    THEN /\ dirExists' = FALSE
         /\ files' = NoFiles
         /\ cleanupLog' = Append(cleanupLog, "ok")
    ELSE /\ files' = [p \in DOMAIN files \cap left |-> files[p]]
         /\ cleanupLog' = Append(cleanupLog, CleanupExcept("OSError"))
         /\ UNCHANGED dirExists

\* faulty variant: cleanup leaves the session alone
MustCloseNever(s) == FALSE

\* if self.session
MustClose(s) == s # NoSession

\* cleanup() is called: with a session set it awaits self.session.close(),
\* otherwise it goes on to the directory
CleanupCall(rm, left) ==
    /\ direct = "none"
    /\ cleanupPc = "idle"
    /\ Len(cleanupLog) < MaxCleanups
    /\ IF MustClose(session)
       THEN /\ cleanupPc' = "closing"
            /\ UNCHANGED <<session, dirExists, files, cleanupLog>>
       ELSE /\ RemoveTree(rm, left)
            /\ UNCHANGED <<session, cleanupPc>>
    /\ UNCHANGED <<direct, removeLog, nameVars, cmdVars, sessionsCreated, pc, track, ret, caught, callVars,
                   directVars>>

\* await self.session.close() returns, self.session = None and the directory
\* is dealt with; or close() raises and the except clause ends the call
CloseReturns(ok, rm, left) ==
    /\ cleanupPc = "closing"
    /\ cleanupPc' = "idle"
    /\ IF ok
       THEN /\ session' = NoSession
            /\ RemoveTree(rm, left)
       ELSE /\ cleanupLog' = Append(cleanupLog, CleanupExcept("ClientError"))
            /\ UNCHANGED <<session, dirExists, files>>
    /\ UNCHANGED <<direct, removeLog, nameVars, cmdVars, sessionsCreated, pc, track, ret, caught, callVars,
                   directVars>>

\* download_track calls for one track, with cleanup() calls at any moment
CleanupNext ==
    \/ \E c \in Calls : DownloadTrack(c, [name |-> "a", artist |-> "x"], "128")
    \/ \E c \in Calls, ok \in BOOLEAN : CreateSubprocess(c, ok)
    \/ \E c \in Calls, n \in {0, MinSizeYtDlp + 1} : ProcWrite(c, "mp3", n)
    \/ \E c \in Calls, rc \in {"exit0", "exit1"} : ProcExit(c, rc)
    \/ \E c \in Calls, rmFails \in SUBSET {"mp3"} : Communicate(c, rmFails)
    \/ \E c \in Calls : Timeout(c)
    \/ \E c \in Calls : Deliver(c)
    \/ \E rm \in {"ok", "fail"}, left \in SUBSET DOMAIN files : CleanupCall(rm, left)
    \/ \E ok \in BOOLEAN, rm \in {"ok", "fail"}, left \in SUBSET DOMAIN files :
          CloseReturns(ok, rm, left)

CleanupSpec == CleanupInit /\ [][CleanupNext]_vars

\* ------------------------------------------------------------------ claims
HasOutcome(c, o) == \E k \in DOMAIN outcomes[c] : outcomes[c][k][2] = o
IsPrefix(s, t) == Len(s) <= Len(t) /\ \A k \in DOMAIN s : s[k] = t[k]

\* C1: once the adapter of a source has returned a path that passes the check
\* of download_track (the "Successfully downloaded" line is logged for the
\* k-th source), the call returns that very path and no source after the
\* k-th is invoked in that call.
C1_ShortCircuit ==
    \A c \in Calls : \A k \in DOMAIN outcomes[c] :
        outcomes[c][k][2] = "ok" =>
            /\ pc[c] = "done"
            /\ result[c].kind = "path"
            /\ result[c] = ret[c]
            /\ Len(invoked[c]) = k

C1_Witness ==
    \E c \in Calls : pc[c] = "done" /\ result[c].kind = "path" /\ HasOutcome(c, "ok")

\* every source of the call was tried and none succeeded
AllFailed(c) == pc[c] = "done" /\ invoked[c] # <<>> /\ ~HasOutcome(c, "ok")

C4_TimeoutIsFailure ==
    \A c \in Calls : \A k \in DOMAIN outcomes[c] :
        outcomes[c][k][2] \in {"timeout", "failed"} =>
            /\ result[c].kind # "raise"
            /\ ~(result[c].kind = "path" /\ Len(outcomes[c]) = k)
            /\ \/ Len(invoked[c]) > k
               \/ k = Len(Sources) /\ pc[c] = "done" /\ result[c] = NoneRet

C4_Witness ==
    \E c \in Calls : HasOutcome(c, "timeout") /\ pc[c] = "done" /\ result[c] = NoneRet

\* C5 as claimed: download_track returns a path only if, at that moment, the
\* path exists on disk and has non-zero size.
C5_ExistsAndNonEmptyOnReturn ==
    [][\A c \in Calls :
          (pc[c] # "done" /\ pc'[c] = "done" /\ result'[c].kind = "path") =>
              /\ Exists(files', result'[c].path)
              /\ files'[result'[c].path].size > 0]_vars

\* C6 as claimed: download_track never raises to its caller, whatever the
\* track description and the quality.
C6_NeverRaises == \A c \in Calls : result[c].kind # "raise"

\* C7: no exception escapes an adapter: whatever an adapter's except clauses
\* caught, the adapter returns None or a path; download_track never logs an
\* adapter error, and a call whose adapter caught an exception still runs
\* through its sources and returns a value.
C7_NoExceptionEscapesAdapter ==
    /\ \A t \in Tasks : ret[t].kind # "raise"
    /\ \A t \in Tasks : (caught[t] # "none" /\ pc[t] \in {"returned", "done"}) =>
                            ret[t].kind \in {"None", "path"}
    /\ \A c \in Calls : ~HasOutcome(c, "error")
    /\ \A c \in Calls : (caught[c] # "none" /\ pc[c] = "done") =>
                            result[c].kind \in {"None", "path"}

C7_Witness ==
    \E c \in Calls :
        /\ caught[c] = "OSError" /\ pc[c] = "done" /\ result[c] = NoneRet
        /\ outcomes[c] = <<<<"Y2Mate", "failed">>>>

C9_NoSmallFileLeftBehind ==
    [][\A t \in Tasks :
          (pc[t] # "returned" /\ pc'[t] = "returned") =>
              \A p \in DOMAIN files' :
                  files'[p].by = t =>
                      files'[p].size >
                          (IF t = Direct /\ direct # "mp3download" THEN 100000 ELSE 50000)]_vars

\* C10 as claimed: once the budget of an adapter has elapsed and the loop
\* has moved on, the yt-dlp subprocess of that attempt is no longer running
\* and no file the attempt wrote is left on disk.
C10_AbandonedOnTimeout ==
    \A c \in Calls :
        HasOutcome(c, "timeout") =>
            /\ proc[c] # "running"
            /\ \A p \in DOMAIN files : files[p].by # c

\* C11 as claimed: no adapter returns as success the file of a response whose
\* content type is text/html, whatever the declared and the transferred size.
C11_HtmlNeverReturned ==
    [][(ret[Direct].kind # "path" /\ ret'[Direct].kind = "path") =>
          ctype # "text/html"]_vars

\* a cleanup() call returns in this step; how it ended
CleanupReturns == Len(cleanupLog') = Len(cleanupLog) + 1
Ended == cleanupLog'[Len(cleanupLog')]
Released == session = NoSession /\ ~dirExists /\ files = NoFiles

\* C12: cleanup is idempotent.  No cleanup call raises; a call that met no
\* error leaves the session unset and the directory removed; and a call made
\* in that state (the second of two calls in succession) meets no error and
\* leaves the session unset and the directory absent.
C12_CleanupIdempotent ==
    [][CleanupReturns =>
          /\ Ended # "raise"
          /\ Ended = "ok" => Released'
          /\ (cleanupPc = "idle" /\ Released) => (Ended = "ok" /\ Released')]_vars

C12_Witness ==
    /\ cleanupLog = <<"ok", "ok">>
    /\ sessionsCreated = 1
    /\ Released

\* C13: cleanup never propagates an error: a failure of session.close() or
\* of rmtree is logged and the call returns normally.
C13_CleanupSwallowsErrors ==
    \A k \in DOMAIN cleanupLog : cleanupLog[k] \in {"ok", "error"}

C13_Witness ==
    /\ cleanupPc = "idle"
    /\ \E k \in DOMAIN cleanupLog : cleanupLog[k] = "error"
    /\ dirExists

\* C14: after a cleanup call that failed partway (close() or rmtree raised),
\* a retried cleanup that meets no error completes the release: the session
\* is unset, the directory and its files are gone.
C14_RetryCompletesRelease ==
    [][(/\ CleanupReturns
        /\ cleanupLog # <<>>
        /\ cleanupLog[Len(cleanupLog)] = "error"
        /\ Ended = "ok") => Released']_vars

C14_Witness ==
    /\ cleanupLog = <<"error", "ok">>
    /\ Released
    /\ cleanupPc = "idle"

\* C15: the session is absent until the first download_track call; a call
\* that finds no session creates one, and a call that finds a session set
\* keeps it: no ClientSession is constructed while one is set.
C15_LazySharedSession ==
    [][/\ (\A c \in Calls : pc[c] = "idle") => session = NoSession
       /\ sessionsCreated' # sessionsCreated =>
             /\ session = NoSession
             /\ sessionsCreated' = sessionsCreated + 1
             /\ session' = sessionsCreated'
       /\ \A c \in Calls :
             (pc[c] = "idle" /\ pc'[c] # "idle" /\ result'[c].kind # "raise") =>
                 /\ session' # NoSession
                 /\ session # NoSession => session' = session]_vars

C15_Witness ==
    /\ \A c \in Calls : pc[c] \notin {"idle", "done"}
    /\ sessionsCreated = 1
    /\ session = 1
    /\ cleanupLog = <<>>

\* C16: every download_track call eventually returns, whatever the yt-dlp
\* subprocess does, including never exiting.
C16_EveryCallReturns ==
    \A c \in Calls : (pc[c] # "idle") ~> (pc[c] = "done")

C16_Witness ==
    \E c \in Calls : pc[c] = "done" /\ proc[c] = "running" /\ result[c] = NoneRet

\* the part of a file name before its extension
RECURSIVE BeforeDot(_)
BeforeDot(n) ==
    IF n = "" \/ Char(n, 1) = "." THEN "" ELSE Char(n, 1) \o BeforeDot(Rest(n))

Occurrences(n, ch) == Cardinality({i \in 1..Len(n) : Char(n, i) = ch})

\* C18: every artifact name consists of word characters and "-", followed
\* by the one "." of its extension: it holds no path separator and no "..",
\* so the output path is a direct child of the download directory.
C18_NameIsSafe ==
    \A a \in NameAdapters : \A n \in names[a] :
        /\ \A i \in 1..Len(n) : Char(n, i) \in WordChars \cup {"-", "."}
        /\ Occurrences(n, ".") = 1
        /\ \E e \in Exts : Len(n) > Len(e) + 1 /\ SubSeq(n, Len(n) - Len(e), Len(n)) = "." \o e

C18_Witness ==
    /\ query = "../"
    /\ names["Y2Mate"] # {}
    /\ names["mp3juice"] # {}

\* the paths a call's yt-dlp adapter writes, probes, returns and removes
PathsOf(c) == {OutputFile(SearchQuery(track[c]), e) : e \in Exts}

\* both calls are inside download_track at the same moment
Concurrent(c, d) ==
    /\ c # d
    /\ pc[c] \in {"spawn", "communicate", "returned"}
    /\ pc[d] \in {"spawn", "communicate", "returned"}

\* C19 as claimed: two concurrent calls for different queries never touch the
\* same path: no file of the download directory lies on a path of both.
C19_DifferentQueriesDisjointPaths ==
    \A c, d \in Calls :
        (Concurrent(c, d) /\ SearchQuery(track[c]) # SearchQuery(track[d])) =>
            \A p \in DOMAIN files : ~(p \in PathsOf(c) /\ p \in PathsOf(d))

\* an adapter of call c fails in this step: its except clause catches an
\* exception, or the loop logs a timeout or a failure for it
AdapterFails(c) ==
    \/ caught[c] = "none" /\ caught'[c] # "none"
    \/ /\ Len(outcomes'[c]) > Len(outcomes[c])
       /\ outcomes'[c][Len(outcomes'[c])][2] # "ok"

OptionValue(line, opt) ==
    LET k == CHOOSE i \in 1..Len(line) : line[i] = opt IN line[k + 1]

\* C21: the --format selector the tool is started with is capped at 128 for
\* quality "128", capped at 192 for "192", uncapped best audio for "320", and
\* for every other quality the selector "320" gets.
C21_QualitySelector ==
    \A c \in Calls : cmd[c] # <<>> =>
        LET sel == OptionValue(cmd[c], "--format") IN
        CASE quality[c] = "128" -> StartsWith(sel, "bestaudio[abr<=128]")
          [] quality[c] = "192" -> StartsWith(sel, "bestaudio[abr<=192]")
          [] quality[c] = "320" -> StartsWith(sel, "bestaudio/") /\ ~Contains(sel, "abr<=")
          [] OTHER -> sel = AudioQuality("320")

C21_Witness ==
    \E c \in Calls :
        /\ quality[c] \notin {"128", "192", "320"}
        /\ cmd[c] # <<>>
        /\ OptionValue(cmd[c], "--format") = "bestaudio/best"

\* an expected file of call c is on disk, above the minimum size
LeftValidFile(c, fs) ==
    \E p \in PathsOf(c) : Exists(fs, p) /\ fs[p].size > MinSizeYtDlp

C23_CleanupFileBestEffort ==
    [][Len(removeLog') > Len(removeLog) =>
          LET p == removeLog'[Len(removeLog')][1]
              how == removeLog'[Len(removeLog')][2]
          IN /\ how \in {"absent", "removed", "warned"}
             /\ how = "absent" <=> ~Exists(files, p)
             /\ how = "removed" => Exists(files, p) /\ files' = RemoveFile(files, p)
             /\ how # "removed" => files' = files]_vars

C23_Witness ==
    /\ Len(removeLog) = MaxFileCleanups
    /\ removeLog[1][2] = "warned"
    /\ removeLog[2] = <<removeLog[1][1], "removed">>
    /\ files = NoFiles

\* the outcome logged for the k-th source of call c
Outcome(c, k) == outcomes[c][k][2]

\* C24: a call goes from pending through its sources, one TRYING at a time,
\* each ended by an outcome: the sources tried are an initial piece of the
\* source list (none twice), all but the one in progress have an outcome; a
\* returned path means the last source tried succeeded and all before it
\* failed or timed out; None is returned only with every source tried once
\* and none successful.
C24_StateMachine ==
    \A c \in Calls :
        /\ IsPrefix(invoked[c], Sources)
        /\ \A j, k \in DOMAIN invoked[c] : invoked[c][j] = invoked[c][k] => j = k
        /\ \A k \in DOMAIN outcomes[c] : outcomes[c][k][1] = invoked[c][k]
        /\ pc[c] = "idle" => invoked[c] = <<>> /\ result[c] = Pending
        /\ pc[c] \in {"spawn", "communicate", "returned"} =>
              /\ Len(invoked[c]) = Len(outcomes[c]) + 1
              /\ result[c] = Pending
              /\ \A k \in DOMAIN outcomes[c] : Outcome(c, k) \in {"failed", "timeout", "error"}
        /\ (pc[c] = "done" /\ result[c].kind = "path") =>
              /\ Len(outcomes[c]) = Len(invoked[c])
              /\ Outcome(c, Len(outcomes[c])) = "ok"
              /\ \A k \in 1..(Len(outcomes[c]) - 1) : Outcome(c, k) \in {"failed", "timeout", "error"}
        /\ (pc[c] = "done" /\ result[c] = NoneRet) =>
              /\ invoked[c] = Sources
              /\ Len(outcomes[c]) = Len(Sources)
              /\ \A k \in DOMAIN outcomes[c] : Outcome(c, k) \in {"failed", "timeout", "error"}

C24_Witness ==
    \E c, d \in Calls :
        /\ pc[c] = "done" /\ result[c] = NoneRet /\ outcomes[c] = <<<<"Y2Mate", "failed">>>>
        /\ pc[d] = "done" /\ result[d].kind = "path" /\ invoked[d] = <<"Y2Mate">>

\* C25 as claimed: the patterns are tried in declared order and the adapter
\* stops at the first pattern with a candidate: all candidates requested in
\* one adapter call belong to one pattern.
C25_StopsAtFirstMatchingPattern ==
    /\ \A j, k \in DOMAIN requests : j < k => requests[j][1] <= requests[k][1]
    /\ \A j, k \in DOMAIN requests : requests[j][1] = requests[k][1]

\* the candidate at hand is the last one the loops reach in its pattern
LastOfPattern == lnk = Min(nlinks, Cap(direct))

\* C26: when the transfer of a candidate has ended, a file above the
\* threshold ends the adapter with that file as its value; a file at or below
\* it is deleted (unless os.remove raises) and the adapter goes on to the next
\* candidate.  Once the adapter has its value, no candidate is requested.
\* The loops pass over no candidate: they go from one candidate to the next
\* of its pattern, to the first of a later pattern after the last one of a
\* pattern, and to the failure value only after the last one of a pattern
\* when no later pattern has any.
C26_FirstValidCandidateWins ==
    [][/\ \A rmOk \in BOOLEAN, nx \in Later(direct, pat) :
             StreamEnd(rmOk, nx) =>
                 LET f == ScrapeFile(track[Direct]) IN
                 IF files[f].size > (IF direct = "mp3download" THEN 50000 ELSE 100000)
                 THEN /\ ret'[Direct] = PathRet(f)
                      /\ pc'[Direct] = "returned"
                      /\ files' = files
                 ELSE /\ rmOk => ~Exists(files', f)
                      /\ IF LastOfPattern /\ nx = Exhausted
                         THEN ret'[Direct] = NoneRet /\ pc'[Direct] = "returned"
                         ELSE pc'[Direct] = "get" /\ <<pat', lnk'>> # <<pat, lnk>>
       /\ pc[Direct] = "returned" => requests' = requests /\ ret'[Direct] = ret[Direct]
       /\ (pc[Direct] \in {"get", "stream"} /\ ret'[Direct] = NoneRet) => LastOfPattern
       /\ <<pat', lnk'>> # <<pat, lnk>> =>
             \/ pat' = pat /\ lnk' = lnk + 1 /\ lnk' <= Min(nlinks, Cap(direct))
             \/ pat' > pat /\ lnk' = 1 /\ (pat = 0 \/ LastOfPattern)]_vars

C26_Witness ==
    /\ direct = "mp3juice"
    /\ requests = <<<<1, 1>>, <<1, 2>>>>
    /\ pc[Direct] = "returned"
    /\ ret[Direct].kind = "path"
    /\ caught[Direct] = "none"
    /\ files[ret[Direct].path].size > 100000

\* C27: the candidates are requested in the order of extraction: pattern
\* loop by pattern loop, and within one loop by rising position, no position
\* twice; and no position beyond the first 3 (2 for y2mate and mp3download,
\* 1 for directdl) of a loop is requested.
C27_ExtractionOrderAndCap ==
    /\ \A j, k \in DOMAIN requests : j < k =>
          \/ requests[j][1] < requests[k][1]
          \/ requests[j][1] = requests[k][1] /\ requests[j][2] < requests[k][2]
    /\ \A k \in DOMAIN requests :
          requests[k][2] <= (CASE direct \in {"mp3juice", "mp3juices"} -> 3
                               [] direct \in {"y2mate", "mp3download"} -> 2
                               [] direct = "directdl" -> 1
                               [] OTHER -> 0)

\* an adapter has run through a pattern with more matches than it tries
C27_Witness ==
    /\ direct = "y2mate"
    /\ requests = <<<<1, 1>>, <<1, 2>>, <<3, 1>>>>
    /\ nlinks = MaxLinks
    /\ pc[Direct] = "returned"

\* the response to the search request has arrived with a status other than 200
BadSearchStatus == searchStatus \notin {0, 200}

\* C28 as claimed: in every source adapter, a search response with a status
\* other than 200 ends the adapter with the failure value, no retrieval
\* request made and no file written.
C28_BadStatusEndsAdapter ==
    BadSearchStatus =>
        /\ pc[Direct] = "returned" /\ ret[Direct] = NoneRet
        /\ requests = <<>>
        /\ files = NoFiles

\* C28 amended: a search response with a status other than 200 is not
\* scanned: an adapter with one search request returns the failure value with
\* no retrieval request made and no file written; directdl requests no
\* candidate of that site and goes on to its next site.
C28_BadStatusNotScanned ==
    BadSearchStatus =>
        /\ NumSites(direct) = 1 =>
              /\ pc[Direct] = "returned" /\ ret[Direct] = NoneRet
              /\ requests = <<>>
              /\ files = NoFiles
        /\ \A k \in DOMAIN requests : requests[k][1] > NumPatterns(direct)
        /\ pat = 0 \/ pat > NumPatterns(direct)

C28_Witness ==
    /\ direct = "mp3juice"
    /\ BadSearchStatus
    /\ pc[Direct] = "returned"
    /\ ret[Direct] = NoneRet
    /\ requests = <<>>

\* the adapter of call c returns in this step, the tool having exited with a
\* non-zero status
ReturnsAfterToolFailure(c) ==
    pc[c] = "communicate" /\ pc'[c] = "returned" /\ proc[c] = "exit1"

\* C29 as claimed: after a non-zero exit the adapter returns a failure value
\* that carries the captured diagnostic text, truncated, and no file path.
C29_FailureCarriesDiagnostic ==
    [][\A c \in Calls : ReturnsAfterToolFailure(c) =>
          /\ ret'[c].kind \notin {"path", "pending"}
          /\ "diagnostic" \in DOMAIN ret'[c]
          /\ IsPrefix(ret'[c].diagnostic, StderrText)]_vars

\* C29 amended: after a non-zero exit the adapter returns None, which carries
\* no text; the captured text is written whole to the log when it decodes;
\* no path is returned and no file is touched, even with an expected file of
\* valid size on disk.
C29_ToolFailureReturnsNone ==
    [][\A c \in Calls : ReturnsAfterToolFailure(c) =>
          /\ ret'[c] = NoneRet
          /\ files' = files
          /\ caught'[c] = "none" => diag'[c] = "yt-dlp failed: " \o StderrText]_vars

C29_Witness ==
    \E c \in Calls :
        /\ pc[c] = "returned"
        /\ diag[c] # "none"
        /\ ret[c] = NoneRet
        /\ LeftValidFile(c, files)

\* the order of probing the claim states, and the k-th path probed for call c
ClaimedOrder == <<"mp3", "m4a", "webm", "ogg">>
Probed(c, k) == OutputFile(SearchQuery(track[c]), ClaimedOrder[k])

\* the first position in that order with a file larger than 50000 bytes on
\* disk, or one past the last position
FirstValid(c) ==
    LET ok == {k \in DOMAIN ClaimedOrder :
                 Exists(files, Probed(c, k)) /\ files[Probed(c, k)].size > 50000}
    IN IF ok = {} THEN Len(ClaimedOrder) + 1
       ELSE CHOOSE k \in ok : \A j \in ok : k <= j

\* C30: when the tool has exited with status 0 and the adapter returns (no
\* os.remove having raised), it returns the first file in the order mp3, m4a,
\* webm, ogg that is larger than 50000 bytes, or None when there is none; the
\* files probed before that one (all at or below 50000 bytes) are deleted,
\* and no other file is touched.
C30_ProbesInOrder ==
    [][\A c \in Calls :
          (/\ pc[c] = "communicate" /\ pc'[c] = "returned"
           /\ proc[c] = "exit0" /\ caught'[c] = "none") =>
              LET first == FirstValid(c)
                  before == {Probed(c, j) : j \in 1..(first - 1)}
              IN /\ ret'[c] = IF first <= Len(ClaimedOrder)
                              THEN PathRet(Probed(c, first)) ELSE NoneRet
                 /\ DOMAIN files' = DOMAIN files \ before
                 /\ \A p \in DOMAIN files' : files'[p] = files[p]]_vars

\* a call returns the m4a file, the mp3 file being gone
C30_Witness ==
    \E c, d \in Calls :
        /\ c # d
        /\ pc[c] = "returned" /\ caught[c] = "none"
        /\ track[c] = track[d]
        /\ ret[c] = PathRet(OutputFile("a x", "m4a"))
        /\ files[ret[c].path].by = d
        /\ ~Exists(files, OutputFile("a x", "mp3"))

\* the characters of a hexadecimal digest
HexChars == {HexDigits[k] : k \in DOMAIN HexDigits}

\* C31: every artifact name reads slug, "-", hash, ".", extension: the hash is
\* exactly 8 hexadecimal digits and is the hash of the raw query string, the
\* extension is one of the probed ones, and the slug holds no whitespace and
\* no two "-" in a row.
C31_NameForm ==
    \A a \in NameAdapters : \A n \in names[a] :
        LET stem == BeforeDot(n)
            ext == SubSeq(n, Len(stem) + 2, Len(n))
            hash == SubSeq(stem, Len(stem) - HashLen + 1, Len(stem))
            slug == SubSeq(stem, 1, Len(stem) - HashLen - 1)
        IN  /\ Len(stem) >= HashLen + 1
            /\ n = slug \o "-" \o hash \o "." \o ext
            /\ ext \in Exts
            /\ Len(hash) = 8
            /\ \A i \in 1..Len(hash) : Char(hash, i) \in HexChars
            /\ hash = FileHash(query)
            /\ \A i \in 1..Len(slug) : Char(slug, i) \notin SpaceChars
            /\ \A i \in 1..(Len(slug) - 1) : ~(Char(slug, i) = "-" /\ Char(slug, i + 1) = "-")

C31_Witness ==
    /\ query = "a -"
    /\ names["Y2Mate"] # {}
    /\ names["y2mate"] = {"a--" \o FileHash("a -") \o ".mp3"}

\* call c has returned path p, and the file is there
Owns(c, p) ==
    /\ pc[c] = "done"
    /\ result[c] = PathRet(p)
    /\ Exists(files, p)

\* C32 as claimed: a file whose path a call has returned is the caller's: no
\* step of another call or of a subprocess truncates, overwrites or deletes
\* it (no cleanup_file and no cleanup() runs in these behaviours).
C32_ReturnedFileUntouched ==
    [][\A c \in Calls : \A p \in DOMAIN files :
          Owns(c, p) => Exists(files', p) /\ files'[p] = files[p]]_vars

\* call c has passed the session check of download_track (line 42 raises
\* KeyError before it)
PastSessionCheck(c) == pc[c] # "idle" /\ result[c] # Raised("KeyError")

\* C33: on a fresh instance, however many download_track calls start before
\* any of them has finished, exactly one ClientSession is constructed: it is
\* constructed by the first call that passes the check, stored at once, and
\* never replaced by another one.
C33_OneSessionCreated ==
    [][direct = "none" =>
          /\ sessionsCreated' = (IF \E c \in Calls : PastSessionCheck(c)' THEN 1 ELSE 0)
          /\ session' = (IF sessionsCreated' = 0 THEN NoSession ELSE 1)
          /\ session # NoSession => session' = session]_vars

C33_Witness ==
    /\ direct = "none"
    /\ \A c \in Calls : pc[c] = "spawn" /\ PastSessionCheck(c)
    /\ sessionsCreated = 1
    /\ session = 1

\* the yt-dlp adapter of call c is between its start and its return: its
\* output template, its subprocess and its probe all lie in download_dir
UsesDirectory(c) == pc[c] \in {"spawn", "communicate"}

\* C34 as claimed: while an adapter is using the working directory and the
\* shared session, no step of a cleanup() call interleaved with it takes them
\* away: the directory stays in place and the session stays set.
C34_ResourcesLiveWhileUsed ==
    [][\A c \in Calls : (UsesDirectory(c) /\ UsesDirectory(c)') =>
          /\ dirExists => dirExists'
          /\ session # NoSession => session' # NoSession]_vars

\* download_track of call c gets past its session check in this step and
\* enters the adapter
Starts(c) == pc[c] = "idle" /\ pc'[c] = "spawn"

\* C35 as claimed: a download_track call that starts, also after cleanup()
\* calls have completed, finds itself with a session set and with the
\* directory named by download_dir in place.
C35_CallAfterCleanupHasResources ==
    [][\A c \in Calls : Starts(c) => session' # NoSession /\ dirExists']_vars

\* the yt-dlp adapter of call c returns path p in this step
AdapterReturns(c, p) ==
    /\ pc[c] = "communicate"
    /\ pc'[c] = "returned"
    /\ ret'[c] = PathRet(p)

\* C36 as claimed: the file at a path the yt-dlp adapter returns was written
\* by the subprocess of that invocation, never by the subprocess of an
\* earlier or concurrent call.
C36_ReturnedFileIsOwnOutput ==
    [][\A c \in Calls : \A p \in DOMAIN files' :
          AdapterReturns(c, p) => files'[p].by = c]_vars

\* the paths whose file this step creates, modifies or deletes
Changed ==
    {p \in DOMAIN files \cup DOMAIN files' :
        ~(p \in DOMAIN files /\ p \in DOMAIN files' /\ files'[p] = files[p])}

\* this step is one of call c, of its adapter or of its subprocess
ActsCall(c) == pc'[c] # pc[c] \/ proc'[c] # proc[c] \/ nwrites'[c] # nwrites[c]

\* the artifact name of each query under the probed extensions
ArtifactNamesOf ==
    [q \in TrackQueries |->
        {SafeFilename(q) \o "-" \o FileHash(q) \o "." \o ExpectedExts[k] :
            k \in DOMAIN ExpectedExts}]
ArtifactNames(q) == ArtifactNamesOf[q]

====
